---------------------------- MODULE Spec2Model ----------------------------
(***************************************************************************)
(* Model of the assignment FAQ generator (FaqGenerator_v2.py) and of its   *)
(* upload presenter (streamlitapp.py).                                     *)
(*                                                                         *)
(* Text is a sequence of one-character strings, so that the substring      *)
(* tests, the regular-expression substitutions and str.lower()/str.strip() *)
(* of the source are computed character by character.                      *)
(***************************************************************************)
EXTENDS Integers, Sequences, FiniteSets, TLC

(***************************************************************************)
(* Characters and the str methods the source uses.                         *)
(***************************************************************************)
UpperChars == <<"A","B","C","D","E","F","G","H","I","J","K","L","M",
                "N","O","P","Q","R","S","T","U","V","W","X","Y","Z">>

LowerChars == <<"a","b","c","d","e","f","g","h","i","j","k","l","m",
                "n","o","p","q","r","s","t","u","v","w","x","y","z">>

DigitChars == {"0","1","2","3","4","5","6","7","8","9"}

RangeOf(s) == { s[i] : i \in 1..Len(s) }

AlphaChars == RangeOf(UpperChars) \cup RangeOf(LowerChars)

SpaceChars == {" ", "\t", "\n", "\r", "\f"}

\* the lower-case letter of each upper-case letter
LowerOf == [c \in RangeOf(UpperChars) |->
             LowerChars[CHOOSE i \in 1..Len(UpperChars) : UpperChars[i] = c]]

\* str.isspace() / the regex class \s
IsSpace(c) == c \in SpaceChars

\* the regex class \d
IsDigit(c) == c \in DigitChars

IsAlphaChar(c) == c \in AlphaChars

\* the regex class \w
IsWordChar(c) == IsAlphaChar(c) \/ IsDigit(c) \/ c = "_"

LowerChar(c) == IF c \in DOMAIN LowerOf THEN LowerOf[c] ELSE c

\* str.lower()
lower(s) == [i \in 1..Len(s) |-> LowerChar(s[i])]

RECURSIVE LeadingSpaces(_, _)
LeadingSpaces(s, i) ==
  IF i <= Len(s) /\ IsSpace(s[i]) THEN LeadingSpaces(s, i + 1) ELSE i - 1

RECURSIVE TrailingSpaces(_, _)
TrailingSpaces(s, j) ==
  IF j >= 1 /\ IsSpace(s[j]) THEN TrailingSpaces(s, j - 1) ELSE Len(s) - j

\* str.strip()
strip(s) ==
  LET a == LeadingSpaces(s, 1)
      b == TrailingSpaces(s, Len(s))
  IN  IF a >= Len(s) THEN <<>> ELSE SubSeq(s, a + 1, Len(s) - b)

\* s[i:].startswith(p), i counted from 1
StartsAt(s, i, p) ==
  /\ i + Len(p) - 1 <= Len(s)
  /\ \A k \in 1..Len(p) : s[i + k - 1] = p[k]

\* the Python test `sub in s`
Contains(s, sub) == \E i \in 1..(Len(s) - Len(sub) + 1) : StartsAt(s, i, sub)

\* str.endswith()
endswith(s, suf) == Len(suf) <= Len(s) /\ StartsAt(s, Len(s) - Len(suf) + 1, suf)

\* any(ind in s for ind in indicators)
ContainsAny(s, indicators) == \E k \in 1..Len(indicators) : Contains(s, indicators[k])

\* the end of the run of characters satisfying the class that starts at i
RECURSIVE DigitRunEnd(_, _)
DigitRunEnd(s, i) ==
  IF i <= Len(s) /\ IsDigit(s[i]) THEN DigitRunEnd(s, i + 1) ELSE i - 1

RECURSIVE SpaceRunEnd(_, _)
SpaceRunEnd(s, i) ==
  IF i <= Len(s) /\ IsSpace(s[i]) THEN SpaceRunEnd(s, i + 1) ELSE i - 1

(***************************************************************************)
(* preprocess_text: the six substitutions, in the order of the source, and *)
(* the final strip.  A substitution that deletes is the selection of the   *)
(* positions no match covers.                                              *)
(***************************************************************************)
Indices(s) == [i \in 1..Len(s) |-> i]

\* the characters of s at the positions idx lists
SelectAt(s, idx) == [k \in 1..Len(idx) |-> s[idx[k]]]

\* re.sub(r'\r\n', '\n', text)
SubCrLf(s) ==
  LET Keep(i) == ~(s[i] = "\r" /\ i < Len(s) /\ s[i + 1] = "\n")
  IN  SelectAt(s, SelectSeq(Indices(s), Keep))

\* re.sub(r'\s+', ' ', text): the first character of a run stays, as a space
SubSpaces(s) ==
  LET Keep(i) == ~(IsSpace(s[i]) /\ i > 1 /\ IsSpace(s[i - 1]))
      t == SelectAt(s, SelectSeq(Indices(s), Keep))
  IN  [k \in 1..Len(t) |-> IF IsSpace(t[k]) THEN " " ELSE t[k]]

\* re.sub(r'\n+', '\n', text)
SubNewlines(s) ==
  LET Keep(i) == ~(s[i] = "\n" /\ i > 1 /\ s[i - 1] = "\n")
  IN  SelectAt(s, SelectSeq(Indices(s), Keep))

\* the characters the class [^\w\s.,!?;:()\-'"] leaves alone
KeptPunctuation == {".", ",", "!", "?", ";", ":", "(", ")", "-", "'", "\""}

IsKept(c) == IsWordChar(c) \/ IsSpace(c) \/ c \in KeptPunctuation

\* re.sub(r'[^\w\s.,!?;:()\-\'"]+', '', text)
SubSymbols(s) == SelectSeq(s, IsKept)

\* whether r'Page \d+' (re.IGNORECASE) matches at i
PageMarkerAt(s, i) ==
  /\ i + 5 <= Len(s)
  /\ s[i] \in {"P", "p"}
  /\ lower(SubSeq(s, i, i + 4)) = <<"p", "a", "g", "e", " ">>
  /\ IsDigit(s[i + 5])

\* re.sub(r'Page \d+', '', text, flags=re.IGNORECASE): no match starts
\* inside another, so the matches are those at every position
SubPageMarkers(s) ==
  LET starts == {m \in 1..Len(s) : PageMarkerAt(s, m)}
      covered == UNION {m..DigitRunEnd(s, m + 5) : m \in starts}
      Keep(i) == i \notin covered
  IN  SelectAt(s, SelectSeq(Indices(s), Keep))

\* whether r'\d+/\d+' matches at i: the digit run from i is followed by "/" and a digit
FractionAt(s, i) ==
  /\ IsDigit(s[i])
  /\ LET e == DigitRunEnd(s, i)
     IN  e + 2 <= Len(s) /\ s[e + 1] = "/" /\ IsDigit(s[e + 2])

SetMin(S) == CHOOSE x \in S : \A y \in S : x <= y

\* re.sub(r'\d+/\d+', '', text): the leftmost match from i on is removed,
\* and the scan goes on after it
RECURSIVE SubFractions(_, _)
SubFractions(s, i) ==
  LET starts == {j \in i..Len(s) : FractionAt(s, j)}
  IN  IF starts = {} THEN SubSeq(s, i, Len(s))
      ELSE LET j == SetMin(starts)
           IN  SubSeq(s, i, j - 1)
                 \o SubFractions(s, DigitRunEnd(s, DigitRunEnd(s, j) + 2) + 1)

preprocess_text(text) ==
  LET t1 == SubCrLf(text)
      t2 == SubSpaces(t1)
      t3 == SubNewlines(t2)
      t4 == SubSymbols(t3)
      t5 == SubPageMarkers(t4)
      t6 == SubFractions(t5, 1)
  IN  strip(t6)

(***************************************************************************)
(* The fixed strings of the source: indicator phrases and the question and *)
(* answer templates.                                                       *)
(***************************************************************************)
definition_indicators ==
  << <<"i","s">>,
     <<"a","r","e">>,
     <<"d","e","f","i","n","e","d"," ","a","s">>,
     <<"r","e","f","e","r","s"," ","t","o">>,
     <<"m","e","a","n","s">>,
     <<"d","e","f","i","n","i","t","i","o","n">>,
     <<"i","s"," ","c","a","l","l","e","d">>,
     <<"i","s"," ","k","n","o","w","n"," ","a","s">> >>

process_indicators ==
  << <<"f","i","r","s","t">>,
     <<"t","h","e","n">>,
     <<"n","e","x","t">>,
     <<"f","i","n","a","l","l","y">>,
     <<"s","t","e","p">>,
     <<"p","r","o","c","e","s","s">>,
     <<"m","e","t","h","o","d">>,
     <<"p","r","o","c","e","d","u","r","e">>,
     <<"h","o","w"," ","t","o">>,
     <<"i","n"," ","o","r","d","e","r"," ","t","o">>,
     <<"s","t","e","p","s">> >>

reason_indicators ==
  << <<"b","e","c","a","u","s","e">>,
     <<"d","u","e"," ","t","o">>,
     <<"s","i","n","c","e">>,
     <<"a","s"," ","a"," ","r","e","s","u","l","t">>,
     <<"t","h","e","r","e","f","o","r","e">>,
     <<"c","o","n","s","e","q","u","e","n","t","l","y">>,
     <<"r","e","a","s","o","n">>,
     <<"c","a","u","s","e">>,
     <<"l","e","a","d","s"," ","t","o">>,
     <<"r","e","s","u","l","t","s"," ","i","n">> >>

comparison_words ==
  << <<"v","e","r","s","u","s">>,
     <<"v","s">>,
     <<"c","o","m","p","a","r","e","d"," ","t","o">>,
     <<"d","i","f","f","e","r","e","n","c","e"," ","b","e","t","w","e",
       "e","n">>,
     <<"s","i","m","i","l","a","r"," ","t","o">>,
     <<"u","n","l","i","k","e">>,
     <<"w","h","e","r","e","a","s">>,
     <<"h","o","w","e","v","e","r">>,
     <<"b","u","t">> >>

\* 'What is '
WhatIs ==
  <<"W","h","a","t"," ","i","s"," ">>

\* '?'
QMark ==
  <<"?">>

\* 'How do you '
HowDoYou ==
  <<"H","o","w"," ","d","o"," ","y","o","u"," ">>

\* ' in this context?'
InThisContext ==
  <<" ","i","n"," ","t","h","i","s"," ","c","o","n","t","e","x","t","?">>

\* 'Why is this concept important in the assignment?'
WhyQuestion ==
  <<"W","h","y"," ","i","s"," ","t","h","i","s"," ","c","o","n","c","e",
    "p","t"," ","i","m","p","o","r","t","a","n","t"," ","i","n"," ","t",
    "h","e"," ","a","s","s","i","g","n","m","e","n","t","?">>

\* 'What is the difference between '
DifferenceBetween ==
  <<"W","h","a","t"," ","i","s"," ","t","h","e"," ","d","i","f","f","e",
    "r","e","n","c","e"," ","b","e","t","w","e","e","n"," ">>

\* ' and '
AndWord ==
  <<" ","a","n","d"," ">>

\* 'Both '
BothWord ==
  <<"B","o","t","h"," ">>

\* ' are important concepts in this assignment that serve different roles in the overall context.'
FallbackTail ==
  <<" ","a","r","e"," ","i","m","p","o","r","t","a","n","t"," ","c","o",
    "n","c","e","p","t","s"," ","i","n"," ","t","h","i","s"," ","a","s",
    "s","i","g","n","m","e","n","t"," ","t","h","a","t"," ","s","e","r",
    "v","e"," ","d","i","f","f","e","r","e","n","t"," ","r","o","l","e",
    "s"," ","i","n"," ","t","h","e"," ","o","v","e","r","a","l","l"," ",
    "c","o","n","t","e","x","t",".">>

\* '.pdf'
DotPdf ==
  <<".","p","d","f">>

\* '.txt'
DotTxt ==
  <<".","t","x","t">>

(***************************************************************************)
(* The tokenizer and the tagger are NLTK's (sent_tokenize, word_tokenize,  *)
(* pos_tag, stopwords).  They are modelled by deterministic stand-ins with *)
(* the same interfaces: text -> sentences, text -> tokens and              *)
(* tokens -> (token, tag) pairs.                                           *)
(***************************************************************************)
IsTerminator(c) == c \in {".", "!", "?"}

\* the last character of the sentence that starts at s: the first ".", "!"
\* or "?" that white space follows, or else the end of the text
SentenceEnd(text, s) ==
  LET ends == {j \in s..(Len(text) - 1) : IsTerminator(text[j]) /\ IsSpace(text[j + 1])}
  IN  IF ends = {} THEN Len(text) ELSE SetMin(ends)

RECURSIVE SplitSentences(_, _)
SplitSentences(text, i) ==
  LET s == SpaceRunEnd(text, i) + 1
  IN  IF s > Len(text) THEN <<>>
      ELSE LET e == SentenceEnd(text, s)
           IN  <<strip(SubSeq(text, s, e))>> \o SplitSentences(text, e + 1)

sent_tokenize(text) == SplitSentences(text, 1)

RECURSIVE WordRunEnd(_, _)
WordRunEnd(s, i) ==
  IF i <= Len(s) /\ IsWordChar(s[i]) THEN WordRunEnd(s, i + 1) ELSE i - 1

\* words are the maximal runs of word characters; any other character that
\* is not white space is a token of its own
RECURSIVE SplitWords(_, _)
SplitWords(text, i) ==
  LET s == SpaceRunEnd(text, i) + 1
  IN  IF s > Len(text) THEN <<>>
      ELSE LET e == IF IsWordChar(text[s]) THEN WordRunEnd(text, s) ELSE s
           IN  <<SubSeq(text, s, e)>> \o SplitWords(text, e + 1)

word_tokenize(text) == SplitWords(text, 1)

\* the words the tagger gives a VB* tag
VerbWords ==
  { <<"i","s">>,
    <<"a","r","e">>,
    <<"c","h","e","c","k">>,
    <<"r","e","a","d">>,
    <<"h","e","l","p">>,
    <<"r","e","d","u","c","e">>,
    <<"u","s","e","d">>,
    <<"f","a","l","l">>,
    <<"s","t","o","r","e">>,
    <<"r","u","n">> }

\* the words the tagger gives a JJ* tag
AdjectiveWords ==
  { <<"f","a","s","t">>,
    <<"s","l","o","w">>,
    <<"b","i","g">> }

\* determiners, pronouns, prepositions, conjunctions and adverbs
FunctionWords ==
  { <<"a">>,
    <<"t","h","e">>,
    <<"t","h","i","s">>,
    <<"i","t">>,
    <<"t","h","e","y">>,
    <<"b","e","c","a","u","s","e">>,
    <<"s","i","n","c","e">>,
    <<"t","o">>,
    <<"i","n">>,
    <<"o","f">>,
    <<"a","n","d">>,
    <<"b","u","t">>,
    <<"t","h","e","n">>,
    <<"f","i","r","s","t">>,
    <<"b","a","c","k">> }

\* stopwords.words('english'), the part of it the sample texts use
stop_words ==
  { <<"a">>,
    <<"t","h","e">>,
    <<"t","h","i","s">>,
    <<"i","t">>,
    <<"t","h","e","y">>,
    <<"b","e","c","a","u","s","e">>,
    <<"t","o">>,
    <<"i","n">>,
    <<"o","f">>,
    <<"a","n","d">>,
    <<"b","u","t">>,
    <<"t","h","e","n">>,
    <<"i","s">>,
    <<"a","r","e">> }

\* the tag of one token
TagOf(word) ==
  IF word \in VerbWords THEN "VB"
  ELSE IF word \in AdjectiveWords THEN "JJ"
  ELSE IF word \in FunctionWords THEN "XX"
  ELSE IF \A k \in 1..Len(word) : IsAlphaChar(word[k]) THEN "NN"
  ELSE IF \A k \in 1..Len(word) : IsDigit(word[k]) THEN "CD"
  ELSE "SYM"

pos_tag(words) == [k \in 1..Len(words) |-> <<words[k], TagOf(words[k])>>]

\* str.isalpha()
isalpha(word) == Len(word) > 0 /\ \A k \in 1..Len(word) : IsAlphaChar(word[k])

(***************************************************************************)
(* extract_key_concepts                                                    *)
(***************************************************************************)
CountOf(w, words) == Cardinality({k \in 1..Len(words) : words[k] = w})

\* the keys of Counter(words), in insertion order
RECURSIVE CounterKeys(_, _)
CounterKeys(words, k) ==
  IF k > Len(words) THEN <<>>
  ELSE IF \E j \in 1..(k - 1) : words[j] = words[k] THEN CounterKeys(words, k + 1)
  ELSE <<words[k]>> \o CounterKeys(words, k + 1)

\* sorted(keys, key=count, reverse=True): the sort is stable, so that keys
\* with equal counts stay in insertion order
RECURSIVE SortByCount(_, _)
SortByCount(keys, words) ==
  IF keys = <<>> THEN <<>>
  ELSE LET best == CHOOSE k \in 1..Len(keys) :
                     /\ \A j \in 1..Len(keys) : CountOf(keys[j], words) <= CountOf(keys[k], words)
                     /\ \A j \in 1..(k - 1) : CountOf(keys[j], words) < CountOf(keys[k], words)
           rest == [j \in 1..(Len(keys) - 1) |-> IF j < best THEN keys[j] ELSE keys[j + 1]]
       IN  <<keys[best]>> \o SortByCount(rest, words)

Prefix(s, n) == SubSeq(s, 1, IF n < Len(s) THEN n ELSE Len(s))

\* Counter(words).most_common(n)
most_common(words, n) == Prefix(SortByCount(CounterKeys(words, 1), words), n)

IsImportant(tagged) ==
  /\ tagged[2] \in {"NN", "JJ", "VB"}
  /\ tagged[1] \notin stop_words
  /\ Len(tagged[1]) > 2
  /\ isalpha(tagged[1])

extract_key_concepts(text, top_n) ==
  LET words == word_tokenize(lower(text))
      pos_tags == pos_tag(words)
      kept == SelectSeq(pos_tags, IsImportant)
      important == [k \in 1..Len(kept) |-> kept[k][1]]
  IN  most_common(important, top_n)

(***************************************************************************)
(* The four question generators and the deduplicator.  A FAQ pair is a     *)
(* record [question, answer].                                              *)
(***************************************************************************)
Pair(q, a) == [question |-> q, answer |-> a]

\* [f(s) for s in seq]
StripAll(seq) == [k \in 1..Len(seq) |-> strip(seq[k])]

\* max(seq, key=len): the first of the longest elements
Longest(seq) ==
  seq[CHOOSE k \in 1..Len(seq) :
        /\ \A j \in 1..Len(seq) : Len(seq[j]) <= Len(seq[k])
        /\ \A j \in 1..(k - 1) : Len(seq[j]) < Len(seq[k])]

\* the condition of line 98 without its indicator test
IsDefinitionSentence_noindicator(concept, sent) ==
  Contains(lower(sent), lower(concept))

\* the condition of line 98
IsDefinitionSentence(concept, sent) ==
  LET s_low == lower(sent)
  IN  Contains(s_low, lower(concept)) /\ ContainsAny(s_low, definition_indicators)

\* the body of the loop over concepts: the pairs one concept adds
DefinitionPairsFor(concept, sents) ==
  LET Test(sent) == IsDefinitionSentence(concept, sent)
      definition_sentences == StripAll(SelectSeq(sents, Test))
  IN  IF definition_sentences # <<>>
        THEN <<Pair(WhatIs \o concept \o QMark, Longest(definition_sentences))>>
        ELSE <<>>

RECURSIVE DefinitionLoop(_, _, _)
DefinitionLoop(concepts, sents, k) ==
  IF k > Len(concepts) THEN <<>>
  ELSE DefinitionPairsFor(concepts[k], sents) \o DefinitionLoop(concepts, sents, k + 1)

generate_definition_questions(concepts, text) ==
  DefinitionLoop(concepts, sent_tokenize(text), 1)

HowCap == 5

IsProcessSentence(sent) == ContainsAny(lower(sent), process_indicators)

\* the body of the loop over process sentences
HowPairsFor(sentence) ==
  LET pos_tags == pos_tag(word_tokenize(lower(sentence)))
      IsVerb(tagged) == tagged[2] = "VB"
      main_verbs == SelectSeq(pos_tags, IsVerb)
  IN  IF main_verbs # <<>>
        THEN <<Pair(HowDoYou \o main_verbs[1][1] \o InThisContext, strip(sentence))>>
        ELSE <<>>

RECURSIVE HowLoop(_, _)
HowLoop(process_sentences, k) ==
  IF k > Len(process_sentences) THEN <<>>
  ELSE HowPairsFor(process_sentences[k]) \o HowLoop(process_sentences, k + 1)

generate_how_questions(text) ==
  LET process_sentences == SelectSeq(sent_tokenize(text), IsProcessSentence)
  IN  HowLoop(Prefix(process_sentences, HowCap), 1)

WhyCap == 3

IsReasonSentence(sent) == ContainsAny(lower(sent), reason_indicators)

\* the pair a qualifying sentence adds (lines 127-128)
WhyPair(sent) == Pair(WhyQuestion, strip(sent))

\* line 129 returning the whole list
WhySlice_uncapped(questions) == questions

\* the slice questions[:3] of line 129
WhySlice(questions) == Prefix(questions, WhyCap)

generate_why_questions(text) ==
  LET qualifying == SelectSeq(sent_tokenize(text), IsReasonSentence)
  IN  WhySlice([k \in 1..Len(qualifying) |-> WhyPair(qualifying[k])])

ComparisonCap == 3

IsComparisonSentence(sent) == ContainsAny(lower(sent), comparison_words)

Min(a, b) == IF a < b THEN a ELSE b

\* line 136 without the cap
ComparisonRange_uncapped(concepts) == 1..(Len(concepts) - 1)

\* range(min(len(concepts)-1, 3)), as the indices i+1 of the source
ComparisonRange(concepts) == 1..Min(Len(concepts) - 1, ComparisonCap)

FallbackAnswer(c1, c2) == BothWord \o c1 \o AndWord \o c2 \o FallbackTail

\* the body of the loop: the pair for concepts[i], concepts[i+1]
ComparisonPair(c1, c2, comparison_sentences) ==
  LET Test(s) == Contains(lower(s), lower(c1)) /\ Contains(lower(s), lower(c2))
      relevant == SelectSeq(comparison_sentences, Test)
  IN  Pair(DifferenceBetween \o c1 \o AndWord \o c2 \o QMark,
           IF relevant # <<>> THEN strip(relevant[1]) ELSE FallbackAnswer(c1, c2))

generate_comparison_questions(text, concepts) ==
  LET comparison_sentences == SelectSeq(sent_tokenize(text), IsComparisonSentence)
      n == Cardinality(ComparisonRange(concepts))
  IN  [i \in 1..n |-> ComparisonPair(concepts[i], concepts[i + 1], comparison_sentences)]

\* line 152 without lower()
QuestionKey_caseful(p) == strip(p.question)

\* p['question'].lower().strip()
QuestionKey(p) == strip(lower(p.question))

RECURSIVE DedupLoop(_, _, _)
DedupLoop(pairs, k, seen) ==
  IF k > Len(pairs) THEN <<>>
  ELSE LET key == QuestionKey(pairs[k])
       IN  IF key \notin seen
             THEN <<pairs[k]>> \o DedupLoop(pairs, k + 1, seen \cup {key})
             ELSE DedupLoop(pairs, k + 1, seen)

remove_duplicate_questions(pairs) == DedupLoop(pairs, 1, {})

(***************************************************************************)
(* The sample documents, paths and files of the bounded model.             *)
(***************************************************************************)
\* ''
EmptyInput ==
  <<>>

\* '  '
BlankPaste ==
  <<" "," ">>

\* 'A cache is fast. Caches help because disk is slow. First, check the cache since it is big.'
CacheDoc ==
  <<"A"," ","c","a","c","h","e"," ","i","s"," ","f","a","s","t","."," ",
    "C","a","c","h","e","s"," ","h","e","l","p"," ","b","e","c","a","u",
    "s","e"," ","d","i","s","k"," ","i","s"," ","s","l","o","w","."," ",
    "F","i","r","s","t",","," ","c","h","e","c","k"," ","t","h","e"," ",
    "c","a","c","h","e"," ","s","i","n","c","e"," ","i","t"," ","i","s",
    " ","b","i","g",".">>

\* 'RAM is fast but disk is slow.'
RamDoc ==
  <<"R","A","M"," ","i","s"," ","f","a","s","t"," ","b","u","t"," ","d",
    "i","s","k"," ","i","s"," ","s","l","o","w",".">>

\* 'Page 12\r\nDisk # is SLOW,\n\ntherefore read RAM first! Then read disk.'
MarkerDoc ==
  <<"P","a","g","e"," ","1","2","\r","\n","D","i","s","k"," ","#"," ","i",
    "s"," ","S","L","O","W",",","\n","\n","t","h","e","r","e","f","o","r",
    "e"," ","r","e","a","d"," ","R","A","M"," ","f","i","r","s","t","!",
    " ","T","h","e","n"," ","r","e","a","d"," ","d","i","s","k",".">>

\* 'notes.txt'
NotesPath ==
  <<"n","o","t","e","s",".","t","x","t">>

\* 'PAPER.PDF'
UpperPath ==
  <<"P","A","P","E","R",".","P","D","F">>

\* 'missing.txt'
MissingTxt ==
  <<"m","i","s","s","i","n","g",".","t","x","t">>

\* 'gone.pdf'
MissingPdf ==
  <<"g","o","n","e",".","p","d","f">>

\* 'empty.txt'
EmptyTxt ==
  <<"e","m","p","t","y",".","t","x","t">>

\* 'blank.pdf'
BlankPdf ==
  <<"b","l","a","n","k",".","p","d","f">>

\* 'Disk is slow. RAM helps because it is fast.\n'
NotesContent ==
  <<"D","i","s","k"," ","i","s"," ","s","l","o","w","."," ","R","A","M",
    " ","h","e","l","p","s"," ","b","e","c","a","u","s","e"," ","i","t",
    " ","i","s"," ","f","a","s","t",".","\n">>

\* 'RAM is fast.'
PaperPage1 ==
  <<"R","A","M"," ","i","s"," ","f","a","s","t",".">>

\* 'Read RAM first, then read disk.'
PaperPage3 ==
  <<"R","e","a","d"," ","R","A","M"," ","f","i","r","s","t",","," ","t",
    "h","e","n"," ","r","e","a","d"," ","d","i","s","k",".">>

\* '/tmp/tmp'
TmpPrefix ==
  <<"/","t","m","p","/","t","m","p">>

\* 'hw.txt'
UploadTxtName ==
  <<"h","w",".","t","x","t">>

\* 'hw.PDF'
UploadPdfName ==
  <<"h","w",".","P","D","F">>

\* 'Disk is slow because it spins.'
UploadContent ==
  <<"D","i","s","k"," ","i","s"," ","s","l","o","w"," ","b","e","c","a",
    "u","s","e"," ","i","t"," ","s","p","i","n","s",".">>

Inputs ==
  { EmptyInput, BlankPaste, CacheDoc, RamDoc, MarkerDoc, NotesPath, UpperPath,
    MissingTxt, MissingPdf, EmptyTxt, BlankPdf }

\* a file is plain text or a PDF, given by the text of its pages
TextFile(content) == [format |-> "text", content |-> content]
PdfFile(pages) == [format |-> "pdf", pages |-> pages]

\* the files on disk: path -> file
DiskFiles ==
  (NotesPath :> TextFile(NotesContent))
    @@ (EmptyTxt :> TextFile(<<>>))
    @@ (UpperPath :> PdfFile(<<PaperPage1, <<>>, PaperPage3>>))
    @@ (BlankPdf :> PdfFile(<< <<>> >>))

(***************************************************************************)
(* State.                                                                  *)
(***************************************************************************)
VARIABLES
  \* the fields of the AssignmentFAQGenerator session
  raw_text, sentences, key_concepts, faq_pairs,
  \* the last process_document call: its argument, what it returned and the
  \* value faq_pairs had between lines 188 and 189
  last_input, last_ret, generated,
  \* the call before it: what it returned, and whether its argument was the
  \* same as the last call's
  prev_ret, repeated,
  \* what get_statistics returned, when it was called after the last
  \* process_document call
  stats,
  \* the environment: the files, which NLTK resource is missing (a call that
  \* needs it raises LookupError) and whether textstat's scorer works
  files, nlp_missing, scorer_ok,
  \* the "Generate FAQs" handler of the upload presenter
  ui_pc, uploaded_file, text_input, to_process, tmp_path, success, ui_out,
  \* a direct call of one of the pure methods: its arguments and results
  arg_text, arg_concepts, arg_pairs, called, result, result_again

session_vars == <<raw_text, sentences, key_concepts, faq_pairs>>
call_vars == <<last_input, last_ret, generated, prev_ret, repeated, stats>>
env_vars == <<files, nlp_missing, scorer_ok>>
ui_vars == <<ui_pc, uploaded_file, text_input, to_process, tmp_path, success, ui_out>>
pure_vars == <<arg_text, arg_concepts, arg_pairs, called, result, result_again>>
vars == <<session_vars, call_vars, env_vars, ui_vars, pure_vars>>

(***************************************************************************)
(* The session: text acquisition, process_document and get_statistics.     *)
(* The methods take the session's fields as the record self.               *)
(***************************************************************************)
Self ==
  [raw_text |-> raw_text, sentences |-> sentences,
   key_concepts |-> key_concepts, faq_pairs |-> faq_pairs]

\* the fields after __init__ (lines 36-39)
NewSession ==
  [raw_text |-> <<>>, sentences |-> <<>>, key_concepts |-> <<>>, faq_pairs |-> <<>>]

\* text += page_text + "\n", for the pages that have text
RECURSIVE PagesText(_, _)
PagesText(pages, p) ==
  IF p > Len(pages) THEN <<>>
  ELSE (IF pages[p] # <<>> THEN pages[p] \o <<"\n">> ELSE <<>>) \o PagesText(pages, p + 1)

\* a missing file, or one that is no PDF, raises inside the try: ""
extract_from_pdf(pdf_path) ==
  IF pdf_path \in DOMAIN files /\ files[pdf_path].format = "pdf"
    THEN PagesText(files[pdf_path].pages, 1)
    ELSE <<>>

\* a missing file, or one that does not decode, raises inside the try: ""
extract_from_txt(txt_path) ==
  IF txt_path \in DOMAIN files /\ files[txt_path].format = "text"
    THEN files[txt_path].content
    ELSE <<>>

\* lines 166-173: the raw text of an input
AcquireText(input_str) ==
  LET input_lower == strip(lower(input_str))
  IN  IF endswith(input_lower, DotPdf) THEN extract_from_pdf(input_str)
      ELSE IF endswith(input_lower, DotTxt) THEN extract_from_txt(input_str)
      ELSE input_str

\* lines 160-163 resetting the raw text only
ResetState_rawonly(self) == [self EXCEPT !.raw_text = <<>>]

\* lines 160-163 without line 163
ResetState_keepfaqs(self) ==
  [raw_text |-> <<>>, sentences |-> <<>>, key_concepts |-> <<>>,
   faq_pairs |-> self.faq_pairs]

\* lines 160-163
ResetState(self) ==
  [raw_text |-> <<>>, sentences |-> <<>>, key_concepts |-> <<>>, faq_pairs |-> <<>>]

PipelineTopN == 15

\* lines 183-188: the four generators' pairs, in generation order
GenerateAll(processed, concepts) ==
  generate_definition_questions(concepts, processed)
    \o generate_how_questions(processed)
    \o generate_why_questions(processed)
    \o generate_comparison_questions(processed, concepts)

\* process_document without line 189
Deduplicated_skipped(pairs) == pairs

\* line 189
Deduplicated(pairs) == remove_duplicate_questions(pairs)

\* The fields after the call, what the call returned ("True", "False", or
\* "raised" when a missing NLTK resource makes sent_tokenize or pos_tag
\* raise) and the list of line 188.
process_document(self, input_str) ==
  LET s0 == ResetState(self)
      s1 == [s0 EXCEPT !.raw_text = AcquireText(input_str)]
  IN  IF s1.raw_text = <<>>
        THEN [self |-> s1, ret |-> "False", generated |-> s1.faq_pairs]
      ELSE IF nlp_missing = "punkt"
        THEN [self |-> s1, ret |-> "raised", generated |-> s1.faq_pairs]
      ELSE
        LET processed == preprocess_text(s1.raw_text)
            s2 == [s1 EXCEPT !.sentences = sent_tokenize(processed)]
        IN  IF nlp_missing = "tagger"
              THEN [self |-> s2, ret |-> "raised", generated |-> s2.faq_pairs]
            ELSE
              LET s3 == [s2 EXCEPT !.key_concepts =
                                      extract_key_concepts(processed, PipelineTopN)]
                  all == GenerateAll(processed, s3.key_concepts)
              IN  [self |-> [s3 EXCEPT !.faq_pairs = Deduplicated(all)],
                   ret |-> "True", generated |-> all]

ErrorRecord == [error |-> "No document processed yet."]

StatsTopN == 10

\* len(text.split())
WordCount(text) ==
  Cardinality({i \in 1..Len(text) :
                 ~IsSpace(text[i]) /\ (i = 1 \/ IsSpace(text[i - 1]))})

\* textstat.flesch_reading_ease(raw_text), a function of the text alone, or
\* "N/A" when the scorer raises
ReadingLevel(text) ==
  IF scorer_ok THEN <<"flesch_reading_ease", text>> ELSE <<"N/A">>

\* the quotient of line 200, as the pair (dividend, divisor)
AvgSentenceLength(self) ==
  IF self.sentences # <<>>
    THEN <<WordCount(self.raw_text), Len(self.sentences)>>
    ELSE <<0, 1>>

get_statistics(self) ==
  IF self.raw_text = <<>> THEN ErrorRecord
  ELSE [total_characters |-> Len(self.raw_text),
        total_sentences |-> Len(self.sentences),
        total_faqs |-> Len(self.faq_pairs),
        key_concepts_found |-> Len(self.key_concepts),
        key_concepts |-> Prefix(self.key_concepts, StatsTopN),
        reading_level |-> ReadingLevel(self.raw_text),
        avg_sentence_length |-> AvgSentenceLength(self)]

\* stats while get_statistics has not been called
NotCalled == [called |-> FALSE]

NoUpload == [name |-> <<>>, data |-> TextFile(<<>>), present |-> FALSE]

InitEnv ==
  /\ files = DiskFiles
  /\ nlp_missing \in {"none", "punkt", "tagger"}
  /\ scorer_ok \in BOOLEAN

InitSession ==
  /\ raw_text = NewSession.raw_text
  /\ sentences = NewSession.sentences
  /\ key_concepts = NewSession.key_concepts
  /\ faq_pairs = NewSession.faq_pairs
  /\ last_input = <<>>
  /\ last_ret = "none"
  /\ generated = <<>>
  /\ prev_ret = "none"
  /\ repeated = FALSE
  /\ stats = NotCalled

InitIdleUi ==
  /\ ui_pc = "idle"
  /\ uploaded_file = NoUpload
  /\ text_input = <<>>
  /\ to_process = <<>>
  /\ tmp_path = <<>>
  /\ success = "none"
  /\ ui_out = "none"

InitNoCall ==
  /\ arg_text = <<>>
  /\ arg_concepts = <<>>
  /\ arg_pairs = <<>>
  /\ called = "none"
  /\ result = <<>>
  /\ result_again = <<>>

Init == InitEnv /\ InitSession /\ InitIdleUi /\ InitNoCall

ProcessDocument(input_str) ==
  \E r \in { process_document(Self, input_str) } :
      /\ raw_text' = r.self.raw_text
      /\ sentences' = r.self.sentences
      /\ key_concepts' = r.self.key_concepts
      /\ faq_pairs' = r.self.faq_pairs
      /\ last_input' = input_str
      /\ last_ret' = r.ret
      /\ generated' = r.generated
      /\ prev_ret' = last_ret
      /\ repeated' = (last_ret # "none" /\ input_str = last_input)
      /\ stats' = NotCalled
      /\ UNCHANGED <<env_vars, ui_vars, pure_vars>>

GetStatistics ==
  /\ stats' = get_statistics(Self)
  /\ UNCHANGED <<session_vars, last_input, last_ret, generated, prev_ret, repeated,
                 env_vars, ui_vars, pure_vars>>

Next ==
  \/ \E input_str \in Inputs : ProcessDocument(input_str)
  \/ GetStatistics

Spec == Init /\ [][Next]_vars

(***************************************************************************)
(* The upload presenter (streamlitapp.py): one run of the "Generate FAQs"  *)
(* handler, in the steps at which an exception can end it.                 *)
(***************************************************************************)
Upload(name, data) == [name |-> name, data |-> data, present |-> TRUE]

Uploads ==
  { NoUpload,
    Upload(UploadTxtName, TextFile(UploadContent)),
    Upload(UploadTxtName, TextFile(<<>>)),
    Upload(UploadPdfName, PdfFile(<<PaperPage1, PaperPage3>>)) }

TextInputs == { EmptyInput, BlankPaste, RamDoc }

\* os.path.splitext(name)[1]: from the last dot on, unless the name starts
\* with it
Suffix(name) ==
  LET dots == {i \in 2..Len(name) : name[i] = "."}
  IN  IF dots = {} THEN <<>>
      ELSE SubSeq(name, CHOOSE i \in dots : \A j \in dots : j <= i, Len(name))

\* the name tempfile.NamedTemporaryFile(delete=False, suffix=suffix) gives
TempName(suffix) == TmpPrefix \o suffix

InitPresenter ==
  /\ InitEnv /\ InitSession /\ InitNoCall
  /\ ui_pc = "idle"
  /\ uploaded_file \in Uploads
  /\ text_input \in TextInputs
  /\ to_process = <<>>
  /\ tmp_path = <<>>
  /\ success = "none"
  /\ ui_out = "none"

\* lines 10-18: the button is pressed; an upload is copied to a temporary file
Acquire ==
  /\ ui_pc = "idle"
  /\ IF uploaded_file.present
       THEN LET path == TempName(Suffix(uploaded_file.name))
            IN  /\ files' = (path :> uploaded_file.data) @@ files
                /\ tmp_path' = path
                /\ to_process' = path
       ELSE /\ to_process' = strip(text_input)
            /\ UNCHANGED <<files, tmp_path>>
  /\ ui_pc' = "acquired"
  /\ UNCHANGED <<session_vars, call_vars, nlp_missing, scorer_ok,
                 uploaded_file, text_input, success, ui_out, pure_vars>>

\* lines 20-21
Warn ==
  /\ ui_pc = "acquired"
  /\ to_process = <<>>
  /\ ui_out' = "warning"
  /\ ui_pc' = "done"
  /\ UNCHANGED <<session_vars, call_vars, env_vars,
                 uploaded_file, text_input, to_process, tmp_path, success, pure_vars>>

\* lines 23-24: a new session processes the input; an exception that
\* process_document lets through ends the handler there
Process ==
  /\ ui_pc = "acquired"
  /\ to_process # <<>>
  /\ \E r \in { process_document(NewSession, to_process) } :
         /\ raw_text' = r.self.raw_text
         /\ sentences' = r.self.sentences
         /\ key_concepts' = r.self.key_concepts
         /\ faq_pairs' = r.self.faq_pairs
         /\ last_input' = to_process
         /\ last_ret' = r.ret
         /\ generated' = r.generated
         /\ IF r.ret = "raised"
              THEN ui_pc' = "aborted" /\ UNCHANGED success
              ELSE ui_pc' = "processed" /\ success' = r.ret
  /\ UNCHANGED <<prev_ret, repeated, stats, env_vars,
                 uploaded_file, text_input, to_process, tmp_path, ui_out, pure_vars>>

\* lines 25-26
Cleanup ==
  /\ ui_pc = "processed"
  /\ IF uploaded_file.present /\ tmp_path \in DOMAIN files
       THEN files' = [p \in DOMAIN files \ {tmp_path} |-> files[p]]
       ELSE UNCHANGED files
  /\ ui_pc' = "cleaned"
  /\ UNCHANGED <<session_vars, call_vars, nlp_missing, scorer_ok,
                 uploaded_file, text_input, to_process, tmp_path, success, ui_out, pure_vars>>

\* lines 27-36
Render ==
  /\ ui_pc = "cleaned"
  /\ IF success = "False"
       THEN ui_out' = "error" /\ UNCHANGED stats
       ELSE ui_out' = "faqs" /\ stats' = get_statistics(Self)
  /\ ui_pc' = "done"
  /\ UNCHANGED <<session_vars, last_input, last_ret, generated, prev_ret, repeated,
                 env_vars, uploaded_file, text_input, to_process, tmp_path, success,
                 pure_vars>>

NextPresenter == Acquire \/ Warn \/ Process \/ Cleanup \/ Render

SpecPresenter == InitPresenter /\ [][NextPresenter]_vars

(***************************************************************************)
(* Direct calls of the pure methods, on arguments drawn from bounded sets. *)
(***************************************************************************)
\* the characters of the drawn texts, as one-character texts
NormAlphabetTexts ==
  { <<"a">>,
    <<" ">>,
    <<"\n">>,
    <<"#">>,
    <<"1">> }

\* texts with page markers, fractions and line ends
NormSamples ==
  { <<"x"," ","P","a","g","e"," ","1","2"," ","y">>,
    <<"P","a","P","a","g","e"," ","1","g","e"," ","2">>,
    <<"1","2","/","3","4","/","5">>,
    <<"a","_","b"," ","$","$","c",".","\t","\t","d">>,
    <<"p","a","g","e"," ","7","/","8">>,
    <<"A"," ","\r","\n"," ","B">> }

\* the concepts of the drawn concept lists
ConceptPool ==
  { <<"c","a","c","h","e">>,
    <<"R","A","M">> }

\* the sentences of the drawn texts
SentencePool ==
  { <<"A"," ","c","a","c","h","e"," ","i","s"," ","f","a","s","t",".">>,
    <<"R","A","M"," ","h","e","l","p","s"," ","B","E","C","A","U","S","E",
      " ","o","f"," ","s","p","e","e","d",".">>,
    <<"U","n","l","i","k","e"," ","R","A","M",","," ","a"," ","c","a","c",
      "h","e"," ","i","s"," ","s","m","a","l","l",".">> }

\* the pairs of the drawn pair lists: three questions with one key, and another
PairPool ==
  { Pair(<<"Q","?">>, <<"x">>),
    Pair(<<"q","?">>, <<"y">>),
    Pair(<<" ","q","?"," ">>, <<"x">>),
    Pair(<<"R","?">>, <<"y">>) }

MaxTextLen == 5
MaxConcepts == 5
MaxSentences == 4
MaxFew == 2
MaxPairs == 3

\* the sequences over S of length n at most
RECURSIVE SeqsUpTo(_, _)
SeqsUpTo(S, n) ==
  IF n = 0 THEN {<<>>}
  ELSE LET shorter == SeqsUpTo(S, n - 1)
       IN  shorter \cup {Append(s, x) : s \in {t \in shorter : Len(t) = n - 1}, x \in S}

\* " ".join(parts)
RECURSIVE Join(_, _)
Join(parts, k) ==
  IF k > Len(parts) THEN <<>>
  ELSE (IF k > 1 THEN <<" ">> ELSE <<>>) \o parts[k] \o Join(parts, k + 1)

\* the concatenation of the elements of a sequence of texts
RECURSIVE Concat(_, _)
Concat(parts, k) ==
  IF k > Len(parts) THEN <<>> ELSE parts[k] \o Concat(parts, k + 1)

NormTexts ==
  {Concat(cs, 1) : cs \in SeqsUpTo(NormAlphabetTexts, MaxTextLen)} \cup NormSamples

\* many concepts with few sentences, and few concepts with many sentences
GeneratorArguments ==
  (SeqsUpTo(ConceptPool, MaxConcepts) \X SeqsUpTo(SentencePool, MaxFew))
    \cup (SeqsUpTo(ConceptPool, MaxFew) \X SeqsUpTo(SentencePool, MaxSentences))

PairLists == SeqsUpTo(PairPool, MaxPairs)

\* the inputs of the calls made beside the direct calls of the deduplicator
DeduplicatorInputs == { EmptyInput, CacheDoc }

InitFixedEnv ==
  /\ files = DiskFiles
  /\ nlp_missing = "none"
  /\ scorer_ok = TRUE

InitPure ==
  /\ InitFixedEnv /\ InitSession /\ InitIdleUi
  /\ called = "none"
  /\ result = <<>>
  /\ result_again = <<>>

Call(name, value) ==
  /\ called' = name
  /\ result' = value
  /\ UNCHANGED <<session_vars, call_vars, env_vars, ui_vars,
                 arg_text, arg_concepts, arg_pairs>>

(* the normalizer, applied to a text and then to its own output *)
InitNormalizer ==
  /\ InitPure
  /\ arg_text \in NormTexts
  /\ arg_concepts = <<>>
  /\ arg_pairs = <<>>

PreprocessText ==
  /\ called = "none"
  /\ result_again' = result_again
  /\ Call("preprocess_text", preprocess_text(arg_text))

PreprocessTextAgain ==
  /\ called = "preprocess_text"
  /\ result_again' = preprocess_text(result)
  /\ Call("preprocess_text twice", result)

NextNormalizer == PreprocessText \/ PreprocessTextAgain

SpecNormalizer == InitNormalizer /\ [][NextNormalizer]_vars

(* the generators, applied to a concept list and a text *)
InitGenerators ==
  /\ InitPure
  /\ \E arguments \in GeneratorArguments :
       /\ arg_concepts = arguments[1]
       /\ arg_text = Join(arguments[2], 1)
  /\ arg_pairs = <<>>

GenerateDefinitionQuestions ==
  /\ called = "none"
  /\ result_again' = result_again
  /\ Call("generate_definition_questions",
          generate_definition_questions(arg_concepts, arg_text))

GenerateHowQuestions ==
  /\ called = "none"
  /\ result_again' = result_again
  /\ Call("generate_how_questions", generate_how_questions(arg_text))

GenerateWhyQuestions ==
  /\ called = "none"
  /\ result_again' = result_again
  /\ Call("generate_why_questions", generate_why_questions(arg_text))

GenerateComparisonQuestions ==
  /\ called = "none"
  /\ result_again' = result_again
  /\ Call("generate_comparison_questions",
          generate_comparison_questions(arg_text, arg_concepts))

NextGenerators ==
  \/ GenerateDefinitionQuestions
  \/ GenerateHowQuestions
  \/ GenerateWhyQuestions
  \/ GenerateComparisonQuestions

SpecGenerators == InitGenerators /\ [][NextGenerators]_vars

(* the deduplicator, called directly on a list of pairs and by               *)
(* process_document on the list of line 188                                *)
InitDeduplicator ==
  /\ InitPure
  /\ arg_pairs \in PairLists
  /\ arg_text = <<>>
  /\ arg_concepts = <<>>

RemoveDuplicateQuestions ==
  /\ called = "none"
  /\ result_again' = result_again
  /\ Call("remove_duplicate_questions", remove_duplicate_questions(arg_pairs))

NextDeduplicator ==
  \/ RemoveDuplicateQuestions
  \/ \E input_str \in DeduplicatorInputs : ProcessDocument(input_str)

SpecDeduplicator == InitDeduplicator /\ [][NextDeduplicator]_vars

(***************************************************************************)
(* Properties.                                                             *)
(***************************************************************************)
\* what a caller observes of the session after a process_document call
OutcomeOf(ret, self) == [ret |-> ret, self |-> self, statistics |-> get_statistics(self)]

Outcome == OutcomeOf(last_ret, Self)

\* the outcome of the same call on a session just constructed
FreshOutcome(input_str) ==
  LET r == process_document(NewSession, input_str)
  IN  OutcomeOf(r.ret, r.self)

PairsWithQuestion(pairs, q) ==
  LET Test(p) == p.question = q
  IN  SelectSeq(pairs, Test)

\* C1: process_document is idempotent and leaks nothing between calls.
\* After every call, whatever calls came before it on the session, the
\* returned flag, the four fields and the statistics record are those the
\* same call gives on a new session; and a call whose input is that of the
\* call before it leaves the flag, the fields (faq_pairs in the same order)
\* and the statistics record as they were.
C1_ProcessDocumentIdempotent ==
  /\ [](last_ret # "none" => Outcome = FreshOutcome(last_input))
  /\ [][(last_ret # "none" /\ last_input' = last_input) => Outcome' = Outcome]_vars

\* a successful call repeated with the same input, and its statistics read
C1_Witness ==
  /\ repeated
  /\ last_ret = "True"
  /\ faq_pairs # <<>>
  /\ stats # NotCalled

\* C2: when acquisition yields empty raw text the call returns failure, the
\* four fields are empty and get_statistics gives the error record, also
\* when the call before it succeeded.
C2_EmptyRawTextFails ==
  (last_ret # "none" /\ AcquireText(last_input) = <<>>) =>
    /\ last_ret = "False"
    /\ Self = NewSession
    /\ get_statistics(Self) = ErrorRecord
    /\ stats # NotCalled => stats = ErrorRecord

\* a failed call after a successful one, and its statistics read
C2_Witness ==
  /\ prev_ret = "True"
  /\ last_ret = "False"
  /\ AcquireText(last_input) = <<>>
  /\ stats = ErrorRecord

\* C3: for every input that yields no text, a blank paste included, the
\* call returns failure, faq_pairs is empty and get_statistics gives the
\* error record.
C3_BlankInputFails ==
  (last_ret # "none" /\ strip(AcquireText(last_input)) = <<>>) =>
    /\ last_ret = "False"
    /\ faq_pairs = <<>>
    /\ get_statistics(Self) = ErrorRecord

\* the positions of pairs whose question key no earlier pair has
FirstOccurrences(pairs) ==
  LET Key(p) == strip(lower(p.question))
      First(k) == \A j \in 1..(k - 1) : Key(pairs[j]) # Key(pairs[k])
  IN  SelectSeq(Indices(pairs), First)

\* no two pairs of output have the same lowercased and trimmed question, and
\* output is the pairs of input that are the first with their key, unaltered
\* and in the order of input
IsDeduplicationOf(output, input) ==
  LET firsts == FirstOccurrences(input)
  IN  /\ \A i, j \in 1..Len(output) :
           i < j => strip(lower(output[i].question)) # strip(lower(output[j].question))
      /\ output = [n \in 1..Len(firsts) |-> input[firsts[n]]]

\* the generator of a pair, by its question: 1 definition, 2 how, 3 why,
\* 4 comparison
GenerationRank(p) ==
  IF StartsAt(p.question, 1, DifferenceBetween) THEN 4
  ELSE IF p.question = WhyQuestion THEN 3
  ELSE IF StartsAt(p.question, 1, HowDoYou) THEN 2
  ELSE 1

\* C4: the output of remove_duplicate_questions holds no two pairs with the
\* same lowercased and trimmed question, and is the input's pairs that are
\* the first with their key, unaltered and in the input's order; after a
\* successful process_document faq_pairs is that of the generated list, in
\* generation order (definition, how, why, comparison).
C4_DeduplicationInvariant ==
  /\ called = "remove_duplicate_questions" => IsDeduplicationOf(result, arg_pairs)
  /\ last_ret = "True" =>
       /\ IsDeduplicationOf(faq_pairs, generated)
       /\ \A i, j \in 1..Len(faq_pairs) :
            i < j => GenerationRank(faq_pairs[i]) <= GenerationRank(faq_pairs[j])

\* process_document dropped a generated pair, and a direct call dropped a
\* pair whose question differs from the kept one's in case or surrounding
\* white space only
C4_Witness ==
  /\ called = "remove_duplicate_questions"
  /\ last_ret = "True"
  /\ Len(faq_pairs) < Len(generated)
  /\ Len(result) < Len(arg_pairs)
  /\ \E i, j \in 1..Len(arg_pairs) :
       /\ i < j
       /\ arg_pairs[i].question # arg_pairs[j].question
       /\ strip(lower(arg_pairs[i].question)) = strip(lower(arg_pairs[j].question))
       /\ arg_pairs[j] \notin RangeOf(result)

\* whether a sentence holds the concept and an indicator phrase
HoldsConceptAndIndicator(concept, sent) ==
  /\ Contains(lower(sent), lower(concept))
  /\ \E k \in 1..Len(definition_indicators) : Contains(lower(sent), definition_indicators[k])

\* C5: every pair of generate_definition_questions asks "What is <concept>?"
\* for a concept of the list and answers with a trimmed sentence of the text
\* that holds that concept and an indicator phrase; a concept that no
\* sentence qualifies for gets no pair.
C5_DefinitionNeverFabricates ==
  called = "generate_definition_questions" =>
    LET sents == sent_tokenize(arg_text)
    IN  /\ \A k \in 1..Len(result) :
             \E c \in RangeOf(arg_concepts), j \in 1..Len(sents) :
               /\ result[k].question = WhatIs \o c \o QMark
               /\ result[k].answer = strip(sents[j])
               /\ HoldsConceptAndIndicator(c, sents[j])
        /\ \A c \in RangeOf(arg_concepts) :
             (\A j \in 1..Len(sents) : ~HoldsConceptAndIndicator(c, sents[j]))
               => PairsWithQuestion(result, WhatIs \o c \o QMark) = <<>>

\* one concept gets a pair while another, found in the text without an
\* indicator phrase, gets none
C5_Witness ==
  /\ called = "generate_definition_questions"
  /\ result # <<>>
  /\ \E c \in RangeOf(arg_concepts) :
       /\ \E j \in 1..Len(sent_tokenize(arg_text)) :
            Contains(lower(sent_tokenize(arg_text)[j]), lower(c))
       /\ PairsWithQuestion(result, WhatIs \o c \o QMark) = <<>>

\* the comparison sentences of a text that hold both concepts
SentencesComparing(text, c1, c2) ==
  LET Test(s) ==
        /\ \E k \in 1..Len(comparison_words) : Contains(lower(s), comparison_words[k])
        /\ Contains(lower(s), lower(c1))
        /\ Contains(lower(s), lower(c2))
  IN  SelectSeq(sent_tokenize(text), Test)

\* C6: generate_comparison_questions emits no pair for fewer than two
\* concepts and otherwise min(len(concepts)-1, 3) pairs, the i-th about
\* concepts[i] and concepts[i+1], answered by the first comparison sentence
\* holding both or else by the synthesized sentence.
C6_ComparisonCount ==
  called = "generate_comparison_questions" =>
    LET n == Len(arg_concepts)
        expected == IF n < 2 THEN 0 ELSE IF n - 1 < 3 THEN n - 1 ELSE 3
    IN  /\ Len(result) = expected
        /\ \A i \in 1..expected :
             LET c1 == arg_concepts[i]
                 c2 == arg_concepts[i + 1]
                 relevant == SentencesComparing(arg_text, c1, c2)
             IN  /\ result[i].question = DifferenceBetween \o c1 \o AndWord \o c2 \o QMark
                 /\ result[i].answer =
                      IF relevant # <<>> THEN strip(relevant[1])
                      ELSE BothWord \o c1 \o AndWord \o c2 \o FallbackTail

\* five concepts or more give three pairs, one of them with the synthesized
\* answer
C6_Witness ==
  /\ called = "generate_comparison_questions"
  /\ Len(arg_concepts) >= 5
  /\ Len(result) = 3
  /\ \E i \in 1..Len(result) :
       result[i].answer =
         BothWord \o arg_concepts[i] \o AndWord \o arg_concepts[i + 1] \o FallbackTail

\* the sentences of a text that hold a reason indicator, in document order
ReasonSentences(text) ==
  LET Test(s) == \E k \in 1..Len(reason_indicators) : Contains(lower(s), reason_indicators[k])
  IN  SelectSeq(sent_tokenize(text), Test)

\* C7: generate_why_questions emits at most three pairs, and their answers
\* are the first min(3, k) of the k qualifying sentences, in document order.
C7_WhyCap ==
  called = "generate_why_questions" =>
    LET qualifying == ReasonSentences(arg_text)
    IN  /\ Len(result) <= 3
        /\ Len(result) = (IF Len(qualifying) < 3 THEN Len(qualifying) ELSE 3)
        /\ \A k \in 1..Len(result) :
             /\ result[k].question = WhyQuestion
             /\ result[k].answer = strip(qualifying[k])

\* four qualifying sentences or more give three pairs
C7_Witness ==
  /\ called = "generate_why_questions"
  /\ Len(ReasonSentences(arg_text)) >= 4
  /\ Len(result) = 3

\* C8: preprocess_text applied to its own output returns it unchanged.
C8_NormalizationIdempotent ==
  called = "preprocess_text twice" => result_again = result

\* C9: a temporary file the handler created for an upload is gone when the
\* handler has ended, however process_document ended.
C9_TempFileReleased ==
  (ui_pc \in {"done", "aborted"} /\ uploaded_file.present) => tmp_path \notin DOMAIN files

\* C10: after a successful call faq_pairs holds at most one pair with the
\* fixed why-question, and its answer is the first sentence, in document
\* order, that holds a reason indicator.
C10_SingleWhyPair ==
  last_ret = "True" =>
    LET why == PairsWithQuestion(faq_pairs, WhyQuestion)
        Test(s) == \E k \in 1..Len(reason_indicators) : Contains(lower(s), reason_indicators[k])
        qualifying == SelectSeq(sentences, Test)
    IN  /\ Len(why) <= 1
        /\ Len(why) = 1 =>
             /\ qualifying # <<>>
             /\ why[1].answer = strip(qualifying[1])

\* the generator emitted several why-pairs and one is left
C10_Witness ==
  /\ last_ret = "True"
  /\ Len(PairsWithQuestion(generated, WhyQuestion)) >= 2
  /\ Len(PairsWithQuestion(faq_pairs, WhyQuestion)) = 1

=============================================================================
